---- MODULE Spec2Model ----
(***************************************************************************)
(* Model of packages/core/utils/lib/convert-rest-query-params.js: the      *)
(* translation of REST query params (_sort, _start, _limit, _where,        *)
(* _publicationState and suffix-encoded filter keys) into a query          *)
(* descriptor.                                                             *)
(*                                                                         *)
(* JavaScript values are tagged records whose first field t is the kind:   *)
(*   undefined, null, boolean, number (an integer), frac (a number that is *)
(*   not an integer), nan, string (a tuple of one-character strings),      *)
(*   array (a tuple of values), object (a tuple of <<key, value>> pairs in *)
(*   property order, keys distinct), throw (an exception leaving the call).*)
(* The where clauses built by the code are records field/operator/value.   *)
(***************************************************************************)
EXTENDS Integers, Sequences, FiniteSets, TLC

VARIABLES fn, args, pc, result

vars == <<fn, args, pc, result>>

-----------------------------------------------------------------------------
(* Bounds of the explored inputs *)

MaxKeyLen == 4      \* longest generated clause key, in characters
MaxClauses == 2     \* most properties of a generated where mapping
MaxGroups == 2      \* most elements of a generated _or/_and value
MaxParams == 3      \* most properties of the generated raw params
MaxSort == 2        \* most elements of a generated sort query

-----------------------------------------------------------------------------
(* JavaScript values *)

Undefined == [t |-> "undefined"]
Null == [t |-> "null"]
Bool(b) == [t |-> "boolean", v |-> b]
Num(n) == [t |-> "number", v |-> n]
Frac(n, d) == [t |-> "frac", v |-> <<n, d>>]
NaN == [t |-> "nan"]
Str(s) == [t |-> "string", v |-> s]
Arr(s) == [t |-> "array", v |-> s]
Obj(s) == [t |-> "object", v |-> s]
Throw(e, m) == [t |-> "throw", err |-> e, msg |-> m]

IsThrow(x) == "t" \in DOMAIN x /\ x.t = "throw"

\* typeof x
TypeOf(x) ==
  CASE x.t = "undefined" -> "undefined"
    [] x.t = "boolean" -> "boolean"
    [] x.t \in {"number", "frac", "nan"} -> "number"
    [] x.t = "string" -> "string"
    [] OTHER -> "object"

\* the conversion of a value to a boolean in a condition
Truthy(x) ==
  CASE x.t \in {"undefined", "null", "nan"} -> FALSE
    [] x.t = "boolean" -> x.v
    [] x.t = "number" -> x.v # 0
    [] x.t = "string" -> x.v # <<>>
    [] OTHER -> TRUE

\* Array.prototype.includes on a tuple
Includes(arr, x) == \E i \in DOMAIN arr : arr[i] = x

\* the first index of c instead of the last
IndexOfFirst(s, c) ==
  IF \E i \in DOMAIN s : s[i] = c
  THEN CHOOSE i \in DOMAIN s : s[i] = c /\ \A j \in DOMAIN s : s[j] = c => i <= j
  ELSE 0

\* String.prototype.lastIndexOf(c), counted from 1; 0 stands for -1
LastIndexOf(s, c) ==
  IF \E i \in DOMAIN s : s[i] = c
  THEN CHOOSE i \in DOMAIN s : s[i] = c /\ \A j \in DOMAIN s : s[j] = c => j <= i
  ELSE 0

\* the decimal digits, Digits[d + 1] is the digit d
Digits == <<"0", "1", "2", "3", "4", "5", "6", "7", "8", "9">>

\* the own enumerable property names Object.keys gives, or the TypeError it
\* raises for undefined and null; a string has one property per character,
\* named by its index
ObjectKeys(x) ==
  CASE x.t \in {"undefined", "null"} ->
         Throw("TypeError", "Cannot convert undefined or null to object")
    [] x.t = "object" -> Arr([i \in DOMAIN x.v |-> x.v[i][1]])
    [] x.t = "string" -> Arr([i \in DOMAIN x.v |-> <<Digits[i]>>])
    [] x.t = "array" -> Arr([i \in DOMAIN x.v |-> <<Digits[i]>>])
    [] OTHER -> Arr(<<>>)

\* the property read x[key]; a string or array is read at keys of ObjectKeys
GetProp(x, key) ==
  CASE x.t = "object" /\ (\E j \in DOMAIN x.v : x.v[j][1] = key) ->
         LET i == CHOOSE j \in DOMAIN x.v : x.v[j][1] = key IN x.v[i][2]
    [] x.t = "string" ->
         LET i == CHOOSE j \in DOMAIN x.v : <<Digits[j]>> = key IN Str(<<x.v[i]>>)
    [] x.t = "array" ->
         LET i == CHOOSE j \in DOMAIN x.v : <<Digits[j]>> = key IN x.v[i]
    [] OTHER -> Undefined

\* _.has(object, key) for a one-segment key
Has(x, key) == x.t = "object" /\ \E i \in DOMAIN x.v : x.v[i][1] = key

-----------------------------------------------------------------------------
(* Constants of the module *)

BOOLEAN_OPERATORS == << <<"o", "r">>, <<"a", "n", "d">> >>

QUERY_OPERATORS ==
  << <<"_", "w", "h", "e", "r", "e">>, <<"_", "o", "r">>, <<"_", "a", "n", "d">> >>

VALID_REST_OPERATORS ==
  << <<"e", "q">>,
     <<"n", "e">>,
     <<"i", "n">>,
     <<"n", "i", "n">>,
     <<"c", "o", "n", "t", "a", "i", "n", "s">>,
     <<"n", "c", "o", "n", "t", "a", "i", "n", "s">>,
     <<"c", "o", "n", "t", "a", "i", "n", "s", "s">>,
     <<"n", "c", "o", "n", "t", "a", "i", "n", "s", "s">>,
     <<"l", "t">>,
     <<"l", "t", "e">>,
     <<"g", "t">>,
     <<"g", "t", "e">>,
     <<"n", "u", "l", "l">> >>

-----------------------------------------------------------------------------
(* Where params *)

\* the first exception among the outcomes rs, in order
FirstThrow(rs) ==
  rs[CHOOSE i \in DOMAIN rs : IsThrow(rs[i]) /\ \A j \in DOMAIN rs : IsThrow(rs[j]) => i <= j]

AnyThrow(rs) == \E i \in DOMAIN rs : IsThrow(rs[i])

RECURSIVE ConcatAll(_)
\* acc.concat(a1).concat(a2)... over the arrays as
ConcatAll(as) ==
  IF as = <<>> THEN <<>> ELSE as[1].v \o ConcatAll(Tail(as))

\* a value wrapped without looking at its kind
WrapValue(value) == <<value>>

\* [].concat(value): the elements of an array, any other value alone
ConcatValue(value) == IF value.t = "array" THEN value.v ELSE <<value>>

RECURSIVE convertWhereParams(_)
RECURSIVE convertWhereClause(_, _)

\* Parse single where param: the returned object, which has no operator
\* property on the two equality paths, or the exception of a nested group
convertWhereClause(whereClause, value) ==
  LET separatorIndex == LastIndexOf(whereClause, "_")
      field == SubSeq(whereClause, 1, separatorIndex - 1)
      operator == SubSeq(whereClause, separatorIndex + 1, Len(whereClause))
      elems == ConcatValue(value)
      groups == [i \in DOMAIN elems |-> convertWhereParams(elems[i])]
  IN  IF separatorIndex = 0
      THEN [field |-> Str(whereClause), value |-> value]
      ELSE IF Includes(BOOLEAN_OPERATORS, operator) /\ field = <<>>
      THEN IF AnyThrow(groups)
           THEN FirstThrow(groups)
           ELSE [field |-> Null, operator |-> Str(operator), value |-> Arr(groups)]
      ELSE IF ~Includes(VALID_REST_OPERATORS, operator)
      THEN [field |-> Str(whereClause), value |-> value]
      ELSE [field |-> Str(field), operator |-> Str(operator), value |-> value]

\* the pushed clause without the default of the operator
PushedClauseNoDefault(c) ==
  [field |-> c.field,
   operator |-> IF "operator" \in DOMAIN c THEN c.operator ELSE Undefined,
   value |-> c.value]

\* the destructuring { field, operator = 'eq', value } and the pushed clause
PushedClause(c) ==
  [field |-> c.field,
   operator |-> IF "operator" \in DOMAIN c THEN c.operator ELSE Str(<<"e", "q">>),
   value |-> c.value]

\* Parse where params: the array of clauses, or the exception raised
convertWhereParams(whereParams) ==
  IF whereParams.t = "array"
  THEN LET parts == [i \in DOMAIN whereParams.v |-> convertWhereParams(whereParams.v[i])]
       IN  IF AnyThrow(parts) THEN FirstThrow(parts) ELSE Arr(ConcatAll(parts))
  ELSE LET keys == ObjectKeys(whereParams)
       IN  IF IsThrow(keys) THEN keys
           ELSE LET parsed == [i \in DOMAIN keys.v |->
                                 convertWhereClause(keys.v[i], GetProp(whereParams, keys.v[i]))]
                IN  IF AnyThrow(parsed) THEN FirstThrow(parsed)
                    ELSE Arr([i \in DOMAIN parsed |-> PushedClause(parsed[i])])

-----------------------------------------------------------------------------
(* Strings *)

RECURSIVE Split(_, _)
\* String.prototype.split(c) for a one-character separator
Split(s, c) ==
  IF ~\E i \in DOMAIN s : s[i] = c
  THEN <<s>>
  ELSE LET i == CHOOSE k \in DOMAIN s : s[k] = c /\ \A j \in 1..(k - 1) : s[j] # c
       IN  <<SubSeq(s, 1, i - 1)>> \o Split(SubSeq(s, i + 1, Len(s)), c)

UpperCase ==
  <<"A", "B", "C", "D", "E", "F", "G", "H", "I", "J", "K", "L", "M",
    "N", "O", "P", "Q", "R", "S", "T", "U", "V", "W", "X", "Y", "Z">>

LowerCase ==
  <<"a", "b", "c", "d", "e", "f", "g", "h", "i", "j", "k", "l", "m",
    "n", "o", "p", "q", "r", "s", "t", "u", "v", "w", "x", "y", "z">>

\* the lower case of one character
LowerChar(c) ==
  IF \E k \in DOMAIN UpperCase : UpperCase[k] = c
  THEN LowerCase[CHOOSE k \in DOMAIN UpperCase : UpperCase[k] = c]
  ELSE c

\* the string left in its case
KeepCase(s) == s

\* String.prototype.toLowerCase
ToLowerCase(s) == [i \in DOMAIN s |-> LowerChar(s[i])]

\* String.prototype.toLocaleLowerCase: the host locale changes the mapping of
\* the letter I only, and an order with an I is outside asc|desc either way
ToLocaleLowerCase(s) == [i \in DOMAIN s |-> LowerChar(s[i])]

RECURSIVE DigitsValue(_)
\* the value of a non-empty tuple of decimal digits
DigitsValue(ds) ==
  IF ds = <<>> THEN 0
  ELSE LET d == (CHOOSE k \in DOMAIN Digits : Digits[k] = ds[Len(ds)]) - 1
       IN  10 * DigitsValue(SubSeq(ds, 1, Len(ds) - 1)) + d

AllDigits(s) == \A i \in DOMAIN s : Includes(Digits, s[i])

RECURSIVE Pow10(_)
Pow10(k) == IF k = 0 THEN 1 ELSE 10 * Pow10(k - 1)

RECURSIVE Trim(_)
\* the string without its leading and trailing spaces
Trim(s) ==
  IF s # <<>> /\ s[1] = " " THEN Trim(Tail(s))
  ELSE IF s # <<>> /\ s[Len(s)] = " " THEN Trim(SubSeq(s, 1, Len(s) - 1))
  ELSE s

\* the unary plus of a string made of digits, sign, dot, spaces and letters
\* other than those of an exponent, a radix prefix or Infinity
StringToNumber(str) ==
  LET s == Trim(str)
      signed == s # <<>> /\ s[1] \in {"-", "+"}
      sign == IF signed /\ s[1] = "-" THEN -1 ELSE 1
      body == IF signed THEN Tail(s) ELSE s
      dot == LastIndexOf(body, ".")
      whole == IF dot = 0 THEN body ELSE SubSeq(body, 1, dot - 1)
      part == IF dot = 0 THEN <<>> ELSE SubSeq(body, dot + 1, Len(body))
  IN  IF s = <<>> THEN Num(0)
      ELSE IF ~(AllDigits(whole) /\ AllDigits(part)) \/ (whole = <<>> /\ part = <<>>)
      THEN NaN
      ELSE IF DigitsValue(part) = 0
      THEN Num(sign * DigitsValue(whole))
      ELSE Frac(sign * (DigitsValue(whole) * Pow10(Len(part)) + DigitsValue(part)),
                Pow10(Len(part)))

RECURSIVE Join(_, _)
\* Array.prototype.join(c) of an array of strings
Join(ss, c) ==
  IF ss = <<>> THEN <<>>
  ELSE IF Len(ss) = 1 THEN ss[1]
  ELSE ss[1] \o <<c>> \o Join(Tail(ss), c)

\* String(x) of an array element: null and undefined give the empty string
ElementToString(x) ==
  CASE x.t = "string" -> x.v
    [] x.t = "number" /\ x.v >= 0 -> <<Digits[x.v + 1]>>
    [] OTHER -> <<>>

\* _.toNumber
ToNumber(value) ==
  CASE value.t \in {"number", "frac", "nan"} -> value
    [] value.t = "array" ->
         StringToNumber(Join([i \in DOMAIN value.v |-> ElementToString(value.v[i])], ","))
    [] value.t = "object" -> NaN
    [] value.t = "undefined" -> NaN
    [] value.t = "null" -> Num(0)
    [] value.t = "boolean" -> IF value.v THEN Num(1) ELSE Num(0)
    [] value.t = "string" -> StringToNumber(value.v)

\* _.isInteger
IsInteger(x) == x.t = "number"

-----------------------------------------------------------------------------
(* Scalar parsers *)

\* the start parser without the test of the sign
convertStartAnySign(startQuery) ==
  LET startAsANumber == ToNumber(startQuery)
  IN  IF ~IsInteger(startAsANumber)
      THEN Throw("Error", "convertStartQueryParams expected a positive integer")
      ELSE startAsANumber

\* Start query parser
convertStartQueryParams(startQuery) ==
  LET startAsANumber == ToNumber(startQuery)
  IN  IF ~IsInteger(startAsANumber) \/ startAsANumber.v < 0
      THEN Throw("Error", "convertStartQueryParams expected a positive integer")
      ELSE startAsANumber

\* Limit query parser
convertLimitQueryParams(limitQuery) ==
  LET limitAsANumber == ToNumber(limitQuery)
  IN  IF ~IsInteger(limitAsANumber) \/ (limitAsANumber.v # -1 /\ limitAsANumber.v < 0)
      THEN Throw("Error", "convertLimitQueryParams expected a positive integer")
      ELSE limitAsANumber

\* the valid publication states, constants.DP_PUB_STATES of ./content-types
DP_PUB_STATES ==
  << Str(<<"l", "i", "v", "e">>), Str(<<"p", "r", "e", "v", "i", "e", "w">>) >>

\* publicationState query parser
convertPublicationStateParams(publicationState) ==
  IF ~Includes(DP_PUB_STATES, publicationState)
  THEN Throw("Error", "convertPublicationStateParams expected a value from")
  ELSE [publicationState |-> publicationState]

RECURSIVE SetPath(_, _)
\* _.set({}, field, value) along the segments of a path without indexes
SetPath(path, value) ==
  IF Len(path) = 1
  THEN Obj(<< <<path[1], value>> >>)
  ELSE Obj(<< <<path[1], SetPath(Tail(path), value)>> >>)

\* the path _.set walks for a field of word characters and dots
StringToPath(field) == Split(field, ".")

\* the body of the forEach of the sort parser for one clause
SortClause(clause) ==
  IF clause.t \in {"undefined", "null"}
  THEN Throw("TypeError", "Cannot read properties of undefined or null")
  ELSE IF clause.t # "string"
  THEN Throw("TypeError", "clause.split is not a function")
  ELSE LET parts == Split(clause.v, ":")
           field == parts[1]
           order == IF Len(parts) >= 2 THEN parts[2] ELSE <<"a", "s", "c">>
       IN  IF Len(field) = 0
           THEN Throw("Error", "Field cannot be empty")
           ELSE IF ~Includes(<< <<"a", "s", "c">>, <<"d", "e", "s", "c">> >>,
                             ToLocaleLowerCase(order))
           THEN Throw("Error", "order can only be one of asc|desc|ASC|DESC")
           ELSE SetPath(StringToPath(field), Str(ToLowerCase(order)))

\* sortQuery.find(clause => !isString(clause))
FindNotString(arr) ==
  IF \E i \in DOMAIN arr : arr[i].t # "string"
  THEN arr[CHOOSE i \in DOMAIN arr :
             arr[i].t # "string" /\ \A j \in 1..(i - 1) : arr[j].t = "string"]
  ELSE Undefined

\* Sort query parser
convertSortQueryParams(sortQueryArg) ==
  LET sortQuery == IF TypeOf(sortQueryArg) = "string"
                   THEN LET pieces == Split(sortQueryArg.v, ",")
                        IN  Arr([i \in DOMAIN pieces |-> Str(pieces[i])])
                   ELSE sortQueryArg
  IN  IF sortQuery.t # "array"
      THEN Throw("Error", <<"convertSortQueryParams expected an array of string, got",
                            TypeOf(sortQuery)>>)
      ELSE LET invalidClauseType == FindNotString(sortQuery.v)
               sortKeys == [i \in DOMAIN sortQuery.v |-> SortClause(sortQuery.v[i])]
           IN  IF Truthy(invalidClauseType)
               THEN Throw("Error", <<"convertSortQueryParams expected an array of string but found",
                                     TypeOf(invalidClauseType)>>)
               ELSE IF AnyThrow(sortKeys) THEN FirstThrow(sortKeys)
               ELSE Arr(sortKeys)

-----------------------------------------------------------------------------
(* Global converter *)

K_sort == <<"_", "s", "o", "r", "t">>
K_start == <<"_", "s", "t", "a", "r", "t">>
K_limit == <<"_", "l", "i", "m", "i", "t">>
K_where == <<"_", "w", "h", "e", "r", "e">>
K_publicationState ==
  <<"_", "p", "u", "b", "l", "i", "c", "a", "t", "i", "o", "n", "S", "t", "a", "t", "e">>

\* Object.assign(target, source) on objects whose property names the code writes
Assign(target, source) ==
  [k \in DOMAIN target \cup DOMAIN source |->
     IF k \in DOMAIN source THEN source[k] ELSE target[k]]

\* _.omit(object, keys)
Omit(x, keys) == Obj(SelectSeq(x.v, LAMBDA p : p[1] \notin keys))

\* acc[key] = value on an object whose keys are not array indexes
SetProp(acc, key, value) ==
  IF \E i \in DOMAIN acc : acc[i][1] = key
  THEN [i \in DOMAIN acc |-> IF acc[i][1] = key THEN <<key, value>> ELSE acc[i]]
  ELSE Append(acc, <<key, value>>)

\* _.startsWith(key, '_')
StartsWithUnderscore(key) == key # <<>> /\ key[1] = "_"

\* every key with a leading underscore loses it
StripsEveryPrefix(key) == StartsWithUnderscore(key)

\* the test of convertExtraRootParams for the keys that lose their prefix
StripsPrefix(key) == StartsWithUnderscore(key) /\ ~Includes(QUERY_OPERATORS, key)

RECURSIVE ExtraRootReduce(_, _)
\* the reduce of convertExtraRootParams over the remaining entries
ExtraRootReduce(acc, entries) ==
  IF entries = <<>> THEN acc
  ELSE LET key == entries[1][1]
           value == entries[1][2]
       IN  IF StripsPrefix(key)
           THEN ExtraRootReduce(SetProp(acc, Tail(key), value), Tail(entries))
           ELSE ExtraRootReduce(SetProp(acc, key, value), Tail(entries))

\* Convert params prefixed with _ by removing the prefix
convertExtraRootParams(params) == Obj(ExtraRootReduce(<<>>, params.v))

\* the mapping the global converter hands to convertExtraRootParams
ExtraRoot(params) ==
  Omit(params, {K_sort, K_start, K_limit, K_where, K_publicationState})

\* the converter going on with empty params
NeverEmpty(params) == FALSE

\* the test of the early return on empty params
IsEmptyParams(params) == Len(ObjectKeys(params).v) = 0

\* the explicit clauses pushed before the extra-root ones
WhereClausesSwapped(rootClauses, explicitClauses) == explicitClauses \o rootClauses

\* the two pushes onto whereClauses
WhereClauses(rootClauses, explicitClauses) == rootClauses \o explicitClauses

\* Global converter: the descriptor, or the exception raised
convertRestQueryParams(paramsArg, defaults) ==
  LET params == IF paramsArg.t = "undefined" THEN Obj(<<>>) ELSE paramsArg
      finalParams == Assign([start |-> Num(0), limit |-> Num(100)], defaults)
      sort == convertSortQueryParams(GetProp(params, K_sort))
      start == convertStartQueryParams(GetProp(params, K_start))
      limit == convertLimitQueryParams(GetProp(params, K_limit))
      pub == convertPublicationStateParams(GetProp(params, K_publicationState))
      withSort == IF Has(params, K_sort) THEN Assign(finalParams, [sort |-> sort])
                  ELSE finalParams
      withStart == IF Has(params, K_start) THEN Assign(withSort, [start |-> start])
                   ELSE withSort
      withLimit == IF Has(params, K_limit) THEN Assign(withStart, [limit |-> limit])
                   ELSE withStart
      withPub == IF Has(params, K_publicationState) THEN Assign(withLimit, pub)
                 ELSE withLimit
      whereParams == convertExtraRootParams(ExtraRoot(params))
      rootClauses == IF Len(whereParams.v) > 0 THEN convertWhereParams(whereParams)
                     ELSE Arr(<<>>)
      explicitClauses == IF Has(params, K_where)
                         THEN convertWhereParams(GetProp(params, K_where))
                         ELSE Arr(<<>>)
  IN  IF TypeOf(params) # "object" \/ params.t = "null"
      THEN Throw("Error", <<"convertRestQueryParams expected an object got",
                            IF params.t = "null" THEN "null" ELSE TypeOf(params)>>)
      ELSE IF IsEmptyParams(params) THEN finalParams
      ELSE IF Has(params, K_sort) /\ IsThrow(sort) THEN sort
      ELSE IF Has(params, K_start) /\ IsThrow(start) THEN start
      ELSE IF Has(params, K_limit) /\ IsThrow(limit) THEN limit
      ELSE IF Has(params, K_publicationState) /\ IsThrow(pub) THEN pub
      ELSE IF IsThrow(rootClauses) THEN rootClauses
      ELSE IF IsThrow(explicitClauses) THEN explicitClauses
      ELSE Assign(withPub, [where |-> Arr(WhereClauses(rootClauses.v, explicitClauses.v))])

-----------------------------------------------------------------------------
(* Explored inputs *)

\* the entries s have pairwise distinct keys
DistinctKeys(s) == \A i, j \in DOMAIN s : i # j => s[i][1] # s[j][1]

\* the function s over 1..n as a tuple
AsTuple(s) == SubSeq(s, 1, Len(s))

RECURSIVE TuplesOf(_, _)
\* the tuples of n elements of S
TuplesOf(S, n) ==
  IF n = 0 THEN {<<>>}
  ELSE {Append(s, e) : s \in TuplesOf(S, n - 1), e \in S}

TuplesUpTo(S, n) == UNION {TuplesOf(S, k) : k \in 0..n}

\* clause keys: every key over a few characters, and fields with each suffix
KeyChars == {"_", "l", "t", "e", "o", "r"}

SampleFields ==
  {<<>>, <<"p", "r", "i", "c", "e">>, <<"a", "_", "b">>, <<"_", "q">>}

SampleSuffixes ==
  {VALID_REST_OPERATORS[i] : i \in DOMAIN VALID_REST_OPERATORS}
    \cup {<<"o", "r">>, <<"a", "n", "d">>, <<"n", "a", "m", "e">>, <<"L", "t">>, <<>>}

ClauseKeys ==
  TuplesUpTo(KeyChars, MaxKeyLen)
    \cup {f \o <<"_">> \o o : f \in SampleFields, o \in SampleSuffixes}

LeafValues == {Num(10), Str(<<"J", "o">>), Null, Arr(<<Num(1), Num(2)>>)}

Key_a == <<"a">>
Key_b_lt == <<"b", "_", "l", "t">>
Key_x_or == <<"x", "_", "o", "r">>
Key_or == <<"_", "o", "r">>
Key_and == <<"_", "a", "n", "d">>

\* the elements of a generated _or/_and value
GroupElements ==
  { Obj(<< <<Key_a, Num(1)>> >>),
    Obj(<< <<Key_or, Arr(<< Obj(<< <<Key_b_lt, Num(2)>> >>) >>)>> >>),
    Arr(<< Obj(<< <<Key_a, Num(1)>> >>), Obj(<< <<Key_b_lt, Num(2)>> >>) >>),
    Null }

GroupValues ==
  {Arr(s) : s \in TuplesUpTo(GroupElements, MaxGroups)}
    \cup {Obj(<< <<Key_b_lt, Num(2)>> >>), Null, Num(5), Str(<<"a", "b">>)}

WhereEntries ==
  {<<k, Num(1)>> : k \in {Key_a, Key_b_lt, Key_x_or}}
    \cup {<<Key_or, g>> : g \in GroupValues}
    \cup {<<Key_and, g>> :
             g \in {Arr(<< Obj(<< <<Key_a, Num(1)>> >>) >>), Obj(<< <<Key_b_lt, Num(2)>> >>), Null}}

\* the where params that are not a mapping
WhereInputs ==
  {Arr(s) : s \in TuplesUpTo(GroupElements, MaxGroups)}
    \cup {Null, Undefined, Num(5), Str(<<"a", "b">>)}

ClauseInputs ==
  {[whereClause |-> k, value |-> v] : k \in ClauseKeys, v \in LeafValues}
    \cup {[whereClause |-> k, value |-> v] : k \in {Key_or, Key_and}, v \in GroupValues}

\* sort queries
SortFields == {<<>>, <<"i", "d">>, <<"a", ".", "b">>}

SortOrders ==
  {<<>>, <<":", "a", "s", "c">>, <<":", "D", "E", "S", "C">>, <<":", "D", "e", "s", "c">>,
   <<":", "u", "p">>, <<":">>, <<":", "a", "s", "c", ":", "x">>}

SortClauses == {f \o o : f \in SortFields, o \in SortOrders}

NotStrings ==
  {Num(0), Num(5), Bool(FALSE), Bool(TRUE), Null, Undefined, NaN, Obj(<<>>)}

SortInputs ==
  {Arr(s) : s \in TuplesUpTo({Str(c) : c \in SortClauses} \cup NotStrings, MaxSort)}
    \cup {Str(Join(s, ",")) : s \in TuplesUpTo(SortClauses, MaxSort) \ {<<>>}}
    \cup {Num(123), Null, Undefined, Obj(<<>>)}

\* start and limit queries
ScalarInputs ==
  { Str(<<"5">>), Str(<<"-", "1">>), Str(<<"-", "2">>), Str(<<"a", "b", "c">>),
    Str(<<"1", ".", "5">>), Str(<<"1", ".", "0">>), Str(<<>>), Str(<<" ", "7">>),
    Str(<<"+", "3">>), Str(<<"1", "0">>), Str(<<"-">>), Str(<<".">>),
    Num(0), Num(7), Num(-1), Num(-2), Frac(3, 2), NaN, Null, Undefined,
    Bool(TRUE), Bool(FALSE), Obj(<<>>), Arr(<<>>), Arr(<<Str(<<"5">>)>>),
    Arr(<<Str(<<"1">>), Str(<<"2">>)>>) }

\* raw params of the global converter
ParamEntries ==
  {<<K_sort, v>> : v \in {Str(<<"i", "d", ":", "D", "E", "S", "C", ",", "a">>), Arr(<<Num(0)>>)}}
    \cup {<<K_start, v>> : v \in {Str(<<"5">>), Str(<<"-", "1">>)}}
    \cup {<<K_limit, v>> : v \in {Str(<<"-", "1">>), Str(<<"-", "2">>)}}
    \cup {<<K_publicationState, v>> : v \in {Str(<<"l", "i", "v", "e">>), Str(<<"x">>)}}
    \cup {<<K_where, v>> :
            v \in { Obj(<< <<Key_a, Num(3)>>, <<Key_b_lt, Num(4)>> >>),
                    Arr(<< Obj(<< <<Key_b_lt, Num(4)>> >>),
                           Obj(<< <<Key_and, Obj(<< <<Key_a, Num(3)>> >>)>> >>) >>) }}
    \cup { <<<<"q">>, Num(2)>>,
           <<<<"_", "q">>, Num(1)>>,
           <<<<"p", "_", "g", "t", "e">>, Num(1)>>,
           <<<<"_", "p", "_", "g", "t", "e">>, Num(2)>>,
           <<<<"f", "_", "n", "a", "m", "e">>, Num(1)>>,
           <<Key_or, Arr(<< Obj(<< <<Key_a, Num(1)>> >>) >>)>>,
           <<<<"_", "_", "o", "r">>, Obj(<< <<Key_b_lt, Num(2)>> >>)>> }

DefaultsInputs ==
  { <<>>,
    [start |-> Num(3), limit |-> Num(20)],
    [start |-> Num(-5)],
    [limit |-> Num(-2)] }

\* the raw params that are not a mapping
ConvertInputs ==
  {[params |-> p, defaults |-> <<>>] : p \in {Undefined, Null, Str(<<"q">>), Num(1)}}

-----------------------------------------------------------------------------
(* The calls *)

NoResult == [t |-> "pending"]

InitOf(f, inputs) ==
  /\ fn = f
  /\ args \in inputs
  /\ pc = "call"
  /\ result = NoResult

\* a call of the global converter, on a mapping of at most MaxParams entries
InitConvert ==
  \/ InitOf("convertRestQueryParams", ConvertInputs)
  \/ \E n \in 0..MaxParams : \E s \in [1..n -> ParamEntries] : \E d \in DefaultsInputs :
        /\ DistinctKeys(s)
        /\ InitOf("convertRestQueryParams", {[params |-> Obj(AsTuple(s)), defaults |-> d]})

\* a call of a scalar parser
InitScalar ==
  \/ InitOf("convertSortQueryParams", {[sortQuery |-> q] : q \in SortInputs})
  \/ InitOf("convertStartQueryParams", {[startQuery |-> q] : q \in ScalarInputs})
  \/ InitOf("convertLimitQueryParams", {[limitQuery |-> q] : q \in ScalarInputs})

\* a call of a where parser, on a mapping of at most MaxClauses entries
InitWhere ==
  \/ InitOf("convertWhereParams", {[whereParams |-> w] : w \in WhereInputs})
  \/ \E n \in 0..MaxClauses : \E s \in [1..n -> WhereEntries] :
        /\ DistinctKeys(s)
        /\ InitOf("convertWhereParams", {[whereParams |-> Obj(AsTuple(s))]})
  \/ InitOf("convertWhereClause", ClauseInputs)

Init == InitConvert \/ InitScalar \/ InitWhere

Return(value) ==
  /\ pc = "call"
  /\ pc' = "done"
  /\ result' = value
  /\ UNCHANGED <<fn, args>>

CallConvertRestQueryParams ==
  /\ fn = "convertRestQueryParams"
  /\ Return(convertRestQueryParams(args.params, args.defaults))

CallConvertSortQueryParams ==
  /\ fn = "convertSortQueryParams"
  /\ Return(convertSortQueryParams(args.sortQuery))

CallConvertStartQueryParams ==
  /\ fn = "convertStartQueryParams"
  /\ Return(convertStartQueryParams(args.startQuery))

CallConvertLimitQueryParams ==
  /\ fn = "convertLimitQueryParams"
  /\ Return(convertLimitQueryParams(args.limitQuery))

CallConvertWhereParams ==
  /\ fn = "convertWhereParams"
  /\ Return(convertWhereParams(args.whereParams))

CallConvertWhereClause ==
  /\ fn = "convertWhereClause"
  /\ Return(convertWhereClause(args.whereClause, args.value))

Next ==
  \/ CallConvertRestQueryParams
  \/ CallConvertSortQueryParams
  \/ CallConvertStartQueryParams
  \/ CallConvertLimitQueryParams
  \/ CallConvertWhereParams
  \/ CallConvertWhereClause

Spec == Init /\ [][Next]_vars

\* the global converter alone
NextConvert == CallConvertRestQueryParams
SpecConvert == InitConvert /\ [][NextConvert]_vars

\* the scalar parsers alone
NextScalar ==
  \/ CallConvertSortQueryParams
  \/ CallConvertStartQueryParams
  \/ CallConvertLimitQueryParams
SpecScalar == InitScalar /\ [][NextScalar]_vars

\* the where parsers alone
NextWhere ==
  \/ CallConvertWhereParams
  \/ CallConvertWhereClause
SpecWhere == InitWhere /\ [][NextWhere]_vars

-----------------------------------------------------------------------------
(* Properties *)

ConvertDone == fn = "convertRestQueryParams" /\ pc = "done"
ConvertReturned == ConvertDone /\ ~IsThrow(result)

\* the raw params of a call of the global converter, undefined read as {}
RawParams == IF args.params.t = "undefined" THEN Obj(<<>>) ELSE args.params

\* the entries of the raw params that are extra-root filters
ExtraEntries == ExtraRoot(RawParams).v

\* the clauses a returned descriptor owes to _where
ExplicitPart ==
  IF Has(RawParams, K_where) THEN convertWhereParams(GetProp(RawParams, K_where)).v
  ELSE <<>>

\* the position of the last extra-root clause in the where of a returned
\* descriptor
RootLen == Len(result["where"].v) - Len(ExplicitPart)

RootPart == SubSeq(result["where"].v, 1, RootLen)

OperatorVocabulary == {Str(VALID_REST_OPERATORS[i]) : i \in DOMAIN VALID_REST_OPERATORS}

BooleanOperators == {Str(<<"o", "r">>), Str(<<"a", "n", "d">>)}

RECURSIVE ClausesWithin(_)
\* the clauses of a where list at every nesting depth
ClausesWithin(clauses) ==
  UNION {{clauses[i]} \cup
           (IF clauses[i].field = Null
            THEN UNION {ClausesWithin(clauses[i].value.v[g].v) : g \in DOMAIN clauses[i].value.v}
            ELSE {}) : i \in DOMAIN clauses}

NonNegative(x) == x.t = "number" /\ x.v >= 0

LimitRange(x) == x.t = "number" /\ (x.v = -1 \/ x.v >= 0)

\* C1 as stated: convert on empty raw params and empty defaults returns
\* {start: 0, limit: 100, where: []}
C1_WhereOnEmpty ==
  (ConvertDone /\ args.params = Obj(<<>>) /\ args.defaults = <<>>)
    => result = [start |-> Num(0), limit |-> Num(100), where |-> Arr(<<>>)]

\* C1 amended: convert on empty raw params and empty defaults returns exactly
\* {start: 0, limit: 100}: no where key, no sort key, no publicationState key
C1_SeedOnEmpty ==
  (ConvertDone /\ args.params = Obj(<<>>) /\ args.defaults = <<>>)
    => /\ DOMAIN result = {"start", "limit"}
       /\ result.start = Num(0)
       /\ result.limit = Num(100)

C1_Witness ==
  /\ ConvertDone
  /\ args.params = Obj(<<>>)
  /\ args.defaults = <<>>
  /\ result = [start |-> Num(0), limit |-> Num(100)]

\* C2 as stated: every clause at every nesting depth of a returned where has
\* an operator of the fixed operator vocabulary
C2_VocabularyOnly ==
  (ConvertReturned /\ "where" \in DOMAIN result)
    => \A c \in ClausesWithin(result["where"].v) : c.operator \in OperatorVocabulary

\* C2 amended: every clause at every nesting depth of a returned where either
\* has a string field and an operator of the fixed operator vocabulary, or is
\* a boolean-composition clause, with field null and operator or/and
C2_VocabularyOrBoolean ==
  (ConvertReturned /\ "where" \in DOMAIN result)
    => \A c \in ClausesWithin(result["where"].v) :
         \/ c.field.t = "string" /\ c.operator \in OperatorVocabulary
         \/ c.field = Null /\ c.operator \in BooleanOperators

C2_Witness ==
  /\ ConvertReturned
  /\ "where" \in DOMAIN result
  /\ \E c \in ClausesWithin(result["where"].v) : c.field = Null
  /\ \E c \in ClausesWithin(result["where"].v) :
       /\ c.operator = Str(<<"l", "t">>)
       /\ \A i \in DOMAIN result["where"].v : result["where"].v[i] # c
  /\ \E c \in ClausesWithin(result["where"].v) :
       c.field = Str(<<"f", "_", "n", "a", "m", "e">>) /\ c.operator = Str(<<"e", "q">>)

\* C3 as stated: in every returned descriptor start is a non-negative
\* integer and limit is -1 or a non-negative integer, whatever the defaults
C3_RangeAlways ==
  ConvertReturned => NonNegative(result.start) /\ LimitRange(result.limit)

\* C3 amended: in every returned descriptor start is a non-negative integer
\* when it comes from the seed or from _start, and limit is -1 or a
\* non-negative integer when it comes from the seed or from _limit; a start
\* or limit of the defaults that raw params does not replace is returned as
\* given
C3_RangeUnlessDefaulted ==
  ConvertReturned =>
    /\ ("start" \notin DOMAIN args.defaults \/ Has(RawParams, K_start))
         => NonNegative(result.start)
    /\ ("limit" \notin DOMAIN args.defaults \/ Has(RawParams, K_limit))
         => LimitRange(result.limit)
    /\ ("start" \in DOMAIN args.defaults /\ ~Has(RawParams, K_start))
         => result.start = args.defaults.start
    /\ ("limit" \in DOMAIN args.defaults /\ ~Has(RawParams, K_limit))
         => result.limit = args.defaults.limit

C3_Witness ==
  /\ ConvertReturned
  /\ args.defaults = [start |-> Num(-5)]
  /\ Has(RawParams, K_start)
  /\ Has(RawParams, K_limit)
  /\ result.start = Num(5)
  /\ result.limit = Num(-1)

\* the key splits at its last underscore into prefix and suffix
SplitsAtLast(key, prefix, suffix) ==
  \E i \in DOMAIN key :
    /\ key[i] = "_"
    /\ \A j \in (i + 1)..Len(key) : key[j] # "_"
    /\ prefix = SubSeq(key, 1, i - 1)
    /\ suffix = SubSeq(key, i + 1, Len(key))

\* the suffix of the key after its last underscore is in the vocabulary
HasOperatorSuffix(key) ==
  \E i \in DOMAIN key :
    SplitsAtLast(key, SubSeq(key, 1, i - 1), SubSeq(key, i + 1, Len(key)))
      /\ Str(SubSeq(key, i + 1, Len(key))) \in OperatorVocabulary

ClauseDone == fn = "convertWhereClause" /\ pc = "done"

\* C4: for a key other than _or and _and, convertWhereClause gives the part
\* before the last underscore as field and the part after it as operator
\* when that part is in the vocabulary, and otherwise the whole key as field
\* and no operator, which convertWhereParams reads as eq; the value is
\* carried through in both cases
C4_SplitAtLastUnderscore ==
  (ClauseDone /\ args.whereClause \notin {Key_or, Key_and}) =>
    /\ ~IsThrow(result)
    /\ result.value = args.value
    /\ HasOperatorSuffix(args.whereClause) =>
         /\ DOMAIN result = {"field", "operator", "value"}
         /\ result.field.t = "string" /\ result.operator.t = "string"
         /\ SplitsAtLast(args.whereClause, result.field.v, result.operator.v)
    /\ ~HasOperatorSuffix(args.whereClause) =>
         /\ DOMAIN result = {"field", "value"}
         /\ result.field = Str(args.whereClause)
         /\ PushedClause(result).operator = Str(<<"e", "q">>)

C4_Witness ==
  /\ ClauseDone
  /\ args.whereClause = <<"a", "_", "b", "_", "l", "t", "e">>
  /\ result.field = Str(<<"a", "_", "b">>)
  /\ result.operator = Str(<<"l", "t", "e">>)

\* C5: when raw params has an extra-root key and a _where entry and convert
\* returns, where is the clause list parsed from the extra-root keys
\* followed by the clause list parsed from _where, each in the order the
\* parser produced it
C5_RootBeforeExplicit ==
  (ConvertReturned /\ Len(ExtraEntries) > 0 /\ Has(RawParams, K_where)) =>
    LET root == convertWhereParams(convertExtraRootParams(ExtraRoot(RawParams))).v
        explicit == convertWhereParams(GetProp(RawParams, K_where)).v
    IN  /\ Len(result["where"].v) = Len(root) + Len(explicit)
        /\ \A i \in DOMAIN root : result["where"].v[i] = root[i]
        /\ \A i \in DOMAIN explicit : result["where"].v[Len(root) + i] = explicit[i]

C5_Witness ==
  /\ ConvertReturned
  /\ Len(ExtraEntries) = 2
  /\ Has(RawParams, K_where)
  /\ RawParams.v[1][1] = K_where
  /\ Len(result["where"].v) = 4
  /\ result["where"].v[1].value = Num(1)
  /\ result["where"].v[3].value = Num(3)

\* C6: the key _or or _and gives one clause with field null, operator or or
\* and, and as value one sub-group per element of the given value, in order,
\* each the clause list of that element, a value that is not a list counting
\* as its only element; and a clause has field null exactly when its
\* operator is or or and
C6_BooleanGroups ==
  /\ (ClauseDone /\ ~IsThrow(result) /\ args.whereClause \in {Key_or, Key_and}) =>
       LET elements == IF args.value.t = "array" THEN args.value.v ELSE <<args.value>>
       IN  /\ result.field = Null
           /\ result.operator = Str(Tail(args.whereClause))
           /\ result.value.t = "array"
           /\ Len(result.value.v) = Len(elements)
           /\ \A i \in DOMAIN elements : result.value.v[i] = convertWhereParams(elements[i])
  /\ (ClauseDone /\ ~IsThrow(result)) =>
       (result.field = Null <=>
          ("operator" \in DOMAIN result /\ result.operator \in BooleanOperators))
  /\ (fn = "convertWhereParams" /\ pc = "done" /\ ~IsThrow(result)) =>
       \A c \in ClausesWithin(result.v) :
         c.field = Null <=> c.operator \in BooleanOperators

C6_Witness ==
  /\ ClauseDone
  /\ args.whereClause = Key_or
  /\ args.value =
       Arr(<< Obj(<< <<Key_a, Num(1)>> >>),
              Arr(<< Obj(<< <<Key_a, Num(1)>> >>), Obj(<< <<Key_b_lt, Num(2)>> >>) >>) >>)
  /\ result =
       [field |-> Null,
        operator |-> Str(<<"o", "r">>),
        value |-> Arr(<< Arr(<<[field |-> Str(<<"a">>), operator |-> Str(<<"e", "q">>),
                                value |-> Num(1)]>>),
                         Arr(<<[field |-> Str(<<"a">>), operator |-> Str(<<"e", "q">>),
                                value |-> Num(1)],
                               [field |-> Str(<<"b">>), operator |-> Str(<<"l", "t">>),
                                value |-> Num(2)]>>) >>)]

SortDone == fn = "convertSortQueryParams" /\ pc = "done"

\* C7: convertSortQueryParams on an array with an element that is not a
\* string fails with the error that names the type of such an element
C7_NonStringNamed ==
  (SortDone /\ args.sortQuery.t = "array"
     /\ \E i \in DOMAIN args.sortQuery.v : args.sortQuery.v[i].t # "string") =>
    /\ IsThrow(result)
    /\ result.err = "Error"
    /\ \E i \in DOMAIN args.sortQuery.v :
         /\ args.sortQuery.v[i].t # "string"
         /\ result.msg = <<"convertSortQueryParams expected an array of string but found",
                           TypeOf(args.sortQuery.v[i])>>

RECURSIVE Pieces(_)
\* the comma-separated pieces of a string, cut from its end
Pieces(s) ==
  IF \A i \in DOMAIN s : s[i] # ","
  THEN <<s>>
  ELSE LET i == CHOOSE k \in DOMAIN s : s[k] = "," /\ \A j \in (k + 1)..Len(s) : s[j] # ","
       IN  Append(Pieces(SubSeq(s, 1, i - 1)), SubSeq(s, i + 1, Len(s)))

\* the elements of the sort query of the call, as strings
SortElements ==
  IF args.sortQuery.t = "string" THEN Pieces(args.sortQuery.v)
  ELSE [i \in DOMAIN args.sortQuery.v |-> args.sortQuery.v[i].v]

\* the part of a sort element before its first colon
FieldOf(e) ==
  IF \E i \in DOMAIN e : e[i] = ":"
  THEN SubSeq(e, 1, (CHOOSE i \in DOMAIN e : e[i] = ":" /\ \A j \in 1..(i - 1) : e[j] # ":") - 1)
  ELSE e

RECURSIVE EntryPath(_)
\* the dotted path of the only leaf of a sort entry
EntryPath(entry) ==
  IF entry.v[1][2].t = "object"
  THEN entry.v[1][1] \o <<".">> \o EntryPath(entry.v[1][2])
  ELSE entry.v[1][1]

RECURSIVE EntryLeaf(_)
\* the only leaf of a sort entry
EntryLeaf(entry) ==
  IF entry.v[1][2].t = "object" THEN EntryLeaf(entry.v[1][2]) ELSE entry.v[1][2]

\* C8: convertSortQueryParams on a comma-separated string gives the outcome
\* it gives on the list of the pieces of the string; an accepted input gives
\* one entry per element, in order, each mapping the non-empty field of the
\* element to asc or desc in lowercase, asc when the element has no order
C8_SortStringAsList ==
  /\ (SortDone /\ args.sortQuery.t = "string") =>
       LET pieces == Pieces(args.sortQuery.v)
       IN  result = convertSortQueryParams(Arr([i \in DOMAIN pieces |-> Str(pieces[i])]))
  /\ (SortDone /\ ~IsThrow(result)) =>
       /\ result.t = "array"
       /\ Len(result.v) = Len(SortElements)
       /\ \A i \in DOMAIN result.v :
            /\ result.v[i].t = "object" /\ Len(result.v[i].v) = 1
            /\ FieldOf(SortElements[i]) # <<>>
            /\ EntryPath(result.v[i]) = FieldOf(SortElements[i])
            /\ EntryLeaf(result.v[i]) \in {Str(<<"a", "s", "c">>), Str(<<"d", "e", "s", "c">>)}
            /\ (\A j \in DOMAIN SortElements[i] : SortElements[i][j] # ":")
                 => EntryLeaf(result.v[i]) = Str(<<"a", "s", "c">>)

C8_Witness ==
  /\ SortDone
  /\ args.sortQuery = Str(<<"i", "d", ":", "D", "E", "S", "C", ",", "a", ".", "b">>)
  /\ result =
       Arr(<< Obj(<< <<<<"i", "d">>, Str(<<"d", "e", "s", "c">>)>> >>),
              Obj(<< <<<<"a">>, Obj(<< <<<<"b">>, Str(<<"a", "s", "c">>)>> >>)>> >>) >>)

\* the key the filter-clause parser is given for a top-level filter key
Unprefixed(key) ==
  IF key # <<>> /\ key[1] = "_" /\ key \notin {Key_or, Key_and} THEN Tail(key) ELSE key

\* C9: every top-level key other than _sort, _start, _limit, _where and
\* _publicationState is a filter key; with a leading underscore, and not _or
\* or _and, it is parsed as the key without that underscore; _or and _and
\* stay as they are and give a clause with field null
C9_PrefixStripped ==
  ConvertReturned =>
    \A i \in DOMAIN ExtraEntries :
      LET key == ExtraEntries[i][1]
          value == ExtraEntries[i][2]
          parsed == PushedClause(convertWhereClause(Unprefixed(key), value))
          alone == \A j \in DOMAIN ExtraEntries :
                     j # i => Unprefixed(ExtraEntries[j][1]) # Unprefixed(key)
      IN  /\ \E n \in 1..RootLen :
               /\ RootPart[n].field = parsed.field
               /\ RootPart[n].operator = parsed.operator
               /\ alone => RootPart[n].value = parsed.value
          /\ key \in {Key_or, Key_and} =>
               \E n \in 1..RootLen :
                 RootPart[n].field = Null /\ RootPart[n].operator = Str(Tail(key))
          /\ key = <<"_", "p", "_", "g", "t", "e">> =>
               \E n \in 1..RootLen :
                 /\ RootPart[n].field = Str(<<"p">>)
                 /\ RootPart[n].operator = Str(<<"g", "t", "e">>)

C9_Witness ==
  /\ ConvertReturned
  /\ Has(RawParams, <<"_", "p", "_", "g", "t", "e">>)
  /\ Has(RawParams, Key_or)
  /\ \E n \in 1..RootLen :
       RootPart[n] = [field |-> Str(<<"p">>), operator |-> Str(<<"g", "t", "e">>),
                      value |-> Num(2)]
  /\ \E n \in 1..RootLen : RootPart[n].field = Null

\* C10: when convert returns, where holds one extra-root clause per
\* extra-root key of raw params
C10_OneClausePerKey ==
  (ConvertReturned /\ "where" \in DOMAIN result) => RootLen = Len(ExtraEntries)

====
